---- MODULE Spec2Model ----
(***************************************************************************)
(* The guided interview capture engine of                                  *)
(* frontend/src/pages/CollectTestimonial.tsx: the React component that     *)
(* speaks each question (Web Speech API), listens for silence on an        *)
(* AnalyserNode from requestAnimationFrame callbacks, records camera and   *)
(* microphone with a MediaRecorder and steps through the question list.    *)
(*                                                                         *)
(* Modelling conventions.                                                  *)
(*  - Every useState value and every ref field is a variable of the same   *)
(*    name.  A handler runs to completion, then the component re-renders   *)
(*    and its effects run: one action is one handler plus that render.     *)
(*  - A function created during a render reads the useState values of      *)
(*    THAT render.  A timer, an utterance and a detection loop therefore   *)
(*    carry the snapshot (Snap) of the render that created them, and the   *)
(*    functions they call (moveToNextQuestion, stopRecording) read the     *)
(*    snapshot.  Refs are read live.                                       *)
(*  - Handlers are written as functions from a world record (all the       *)
(*    variables as fields) to a world record, so that the calls of one     *)
(*    handler compose in the order of the code.                            *)
(*  - The model is untimed: timers, speech events, animation frames and    *)
(*    the device prompt interleave freely.  Two things are assumed of      *)
(*    timing.  The speech engine delivers its events in the order it       *)
(*    produced them, and a user click comes after the events of the        *)
(*    utterances the previous step cancelled (CanClick).  Preparing an     *)
(*    interview awaits the question service, so it comes after the 400 ms  *)
(*    and 500 ms timers of the previous interview have run.                *)
(***************************************************************************)
EXTENDS Integers, Sequences, FiniteSets, TLC

\* ---------------------------------------------------------------- bounds
\* The longest question list generateQuestions returns.
MaxQuestions == 3
\* Calls of getUserMedia (startRecording) in one run.
MaxAcquisitions == 2
\* Interviews prepared (handleStartTestimonial) in one run.
MaxInterviews == 1
\* Frames of sustained silence that end a turn; stands for
\* Math.ceil(SILENCE_DURATION / 16.67) = 120.
requiredFrames == 2
\* dataavailable events of one recorder.
MaxChunks == 3
\* Voices speechSynthesis.getVoices() returns.
MaxVoices == 2

\* Frequency bins read per frame; stands for analyser.frequencyBinCount,
\* which is fftSize / 2 = 1024.
frequencyBinCount == 2

\* ------------------------------------------------------ program constants
SILENCE_THRESHOLD == 18

VARIABLES
  \* useState
  isPrepared, isInterviewStarted, isCompleted, questions,
  currentQuestionIndex, isSpeaking, isRecording, mediaRecorder,
  mediaStream, audioContext, videoBlob, permissionError,
  permissionRetryCount, callConsentAccepted,
  \* useRef
  analyserRef, isActive, animationFrameId,
  \* hooks: pending timers and the cleanup of the recording effect
  speechTimer, indexTimer, recordingCleanup, finalizeTimers, mounted,
  \* window.speechSynthesis
  synthQueue, cancelledUtterances,
  \* requestAnimationFrame callbacks that are scheduled
  frameCallbacks,
  \* navigator.mediaDevices / MediaRecorder / AudioContext
  pendingGetUserMedia, streams, trackLive, recorderState, recorderStopEvents,
  contextState,
  \* observation of calls made to collaborators
  blobs, uploads, interviews, failures, thrown, lastEvent, heard,
  \* useState of the upload
  isUploading,
  \* useState of the upload
  uploadError,
  \* fetch: uploads awaiting their response
  pendingUploads,
  \* useState: the language picked on the setup screen
  selectedLanguage,
  \* the chunks array of each startRecording call
  chunks,
  \* MediaRecorder: the data of the dataavailable events fired so far
  emitted,
  \* the Blob each recorder.onstop built
  artifact,
  \* useState: the voices speechSynthesis.getVoices() last returned
  availableVoices

vars ==
  << isPrepared, isInterviewStarted, isCompleted, questions,
     currentQuestionIndex, isSpeaking, isRecording, mediaRecorder,
     mediaStream, audioContext, videoBlob, permissionError,
     permissionRetryCount, callConsentAccepted,
     analyserRef, isActive, animationFrameId,
     speechTimer, indexTimer, recordingCleanup, finalizeTimers, mounted,
     synthQueue, cancelledUtterances, frameCallbacks,
     pendingGetUserMedia, streams, trackLive, recorderState,
     recorderStopEvents, contextState,
     blobs, uploads, interviews, failures, thrown, lastEvent, heard,
     isUploading,
     uploadError,
     pendingUploads,
     selectedLanguage,
     chunks,
     emitted,
     artifact,
     availableVoices >>

\* The variables as one record.
World ==
  [ isPrepared |-> isPrepared, isInterviewStarted |-> isInterviewStarted,
    isCompleted |-> isCompleted, questions |-> questions,
    currentQuestionIndex |-> currentQuestionIndex, isSpeaking |-> isSpeaking,
    isRecording |-> isRecording, mediaRecorder |-> mediaRecorder,
    mediaStream |-> mediaStream, audioContext |-> audioContext,
    videoBlob |-> videoBlob, permissionError |-> permissionError,
    permissionRetryCount |-> permissionRetryCount,
    callConsentAccepted |-> callConsentAccepted,
    analyserRef |-> analyserRef, isActive |-> isActive,
    animationFrameId |-> animationFrameId,
    speechTimer |-> speechTimer, indexTimer |-> indexTimer,
    recordingCleanup |-> recordingCleanup, finalizeTimers |-> finalizeTimers,
    mounted |-> mounted,
    synthQueue |-> synthQueue, cancelledUtterances |-> cancelledUtterances,
    frameCallbacks |-> frameCallbacks,
    pendingGetUserMedia |-> pendingGetUserMedia, streams |-> streams,
    trackLive |-> trackLive, recorderState |-> recorderState,
    recorderStopEvents |-> recorderStopEvents, contextState |-> contextState,
    blobs |-> blobs, uploads |-> uploads, interviews |-> interviews, failures |-> failures,
    thrown |-> thrown, lastEvent |-> lastEvent,
    isUploading |-> isUploading,
    uploadError |-> uploadError,
    pendingUploads |-> pendingUploads,
    selectedLanguage |-> selectedLanguage,
    chunks |-> chunks,
    emitted |-> emitted,
    artifact |-> artifact,
    availableVoices |-> availableVoices ]

\* The next state is the world w.
Becomes(w) ==
  /\ isPrepared' = w.isPrepared
  /\ isInterviewStarted' = w.isInterviewStarted
  /\ isCompleted' = w.isCompleted
  /\ questions' = w.questions
  /\ currentQuestionIndex' = w.currentQuestionIndex
  /\ isSpeaking' = w.isSpeaking
  /\ isRecording' = w.isRecording
  /\ mediaRecorder' = w.mediaRecorder
  /\ mediaStream' = w.mediaStream
  /\ audioContext' = w.audioContext
  /\ videoBlob' = w.videoBlob
  /\ permissionError' = w.permissionError
  /\ permissionRetryCount' = w.permissionRetryCount
  /\ callConsentAccepted' = w.callConsentAccepted
  /\ analyserRef' = w.analyserRef
  /\ isActive' = w.isActive
  /\ animationFrameId' = w.animationFrameId
  /\ speechTimer' = w.speechTimer
  /\ indexTimer' = w.indexTimer
  /\ recordingCleanup' = w.recordingCleanup
  /\ finalizeTimers' = w.finalizeTimers
  /\ mounted' = w.mounted
  /\ synthQueue' = w.synthQueue
  /\ cancelledUtterances' = w.cancelledUtterances
  /\ frameCallbacks' = w.frameCallbacks
  /\ pendingGetUserMedia' = w.pendingGetUserMedia
  /\ streams' = w.streams
  /\ trackLive' = w.trackLive
  /\ recorderState' = w.recorderState
  /\ recorderStopEvents' = w.recorderStopEvents
  /\ contextState' = w.contextState
  /\ blobs' = w.blobs
  /\ uploads' = w.uploads
  /\ interviews' = w.interviews
  /\ failures' = w.failures
  /\ thrown' = w.thrown
  /\ lastEvent' = w.lastEvent
  /\ isUploading' = w.isUploading
  /\ uploadError' = w.uploadError
  /\ pendingUploads' = w.pendingUploads
  /\ selectedLanguage' = w.selectedLanguage
  /\ chunks' = w.chunks
  /\ emitted' = w.emitted
  /\ artifact' = w.artifact
  /\ availableVoices' = w.availableVoices

\* ------------------------------------------------------------- snapshots
\* 0 stands for null wherever a stream, recorder, context or frame id is held.
Streams == 1..MaxAcquisitions

\* What the functions of one render read from useState.
Snap(w) ==
  [ questions |-> w.questions,
    currentQuestionIndex |-> w.currentQuestionIndex,
    mediaRecorder |-> w.mediaRecorder,
    mediaStream |-> w.mediaStream,
    audioContext |-> w.audioContext,
    isRecording |-> w.isRecording,
    selectedLanguage |-> w.selectedLanguage,
    availableVoices |-> w.availableVoices ]

NoSnap ==
  [ questions |-> 0, currentQuestionIndex |-> 0, mediaRecorder |-> 0,
    mediaStream |-> 0, audioContext |-> 0, isRecording |-> FALSE,
    selectedLanguage |-> "english", availableVoices |-> << >> ]

\* No Blob, and the Blob built of the parts.
NoBlob == [ built |-> FALSE, parts |-> << >> ]
Blob(parts) == [ built |-> TRUE, parts |-> parts ]

\* A timer that is not pending, and one pending with the render's functions.
NoTimer == [ pending |-> FALSE, snap |-> NoSnap, older |-> {} ]

\* setTimeout: the effect's const timer is the new one; a timer set by an
\* earlier run that nobody cleared stays pending beside it.
setTimeout(t, s) ==
  [ pending |-> TRUE, snap |-> s,
    older |-> IF t.pending THEN t.older \cup { t.snap } ELSE t.older ]

\* clearTimeout(timer), of the timer the cleanup's closure holds.
clearTimeout(t) == [ t EXCEPT !.pending = FALSE, !.snap = NoSnap ]

\* The callbacks pending, and the timers left when the one of s has run.
PendingTimers(t) == (IF t.pending THEN { t.snap } ELSE {}) \cup t.older
Fired(t, s) ==
  IF t.pending /\ t.snap = s THEN clearTimeout(t) ELSE [ t EXCEPT !.older = @ \ { s } ]


\* ------------------------------------------------- window.speechSynthesis
\* speechSynthesis.cancel(): empties the queue.  The utterances removed get a
\* terminal event later when fires, and none otherwise (the engine
\* guarantees neither).
cancel(w, fires) ==
  [ w EXCEPT
      !.synthQueue = << >>,
      !.cancelledUtterances =
         IF fires
         THEN @ \o [ i \in 1..Len(w.synthQueue) |-> w.synthQueue[i].snap ]
         ELSE @ ]

\* ------------------------------------------------------------ the voices
\* Strings that are searched are sequences of characters.
UpperCase ==
  << "A", "B", "C", "D", "E", "F", "G", "H", "I", "J", "K", "L", "M",
     "N", "O", "P", "Q", "R", "S", "T", "U", "V", "W", "X", "Y", "Z" >>
LowerCase ==
  << "a", "b", "c", "d", "e", "f", "g", "h", "i", "j", "k", "l", "m",
     "n", "o", "p", "q", "r", "s", "t", "u", "v", "w", "x", "y", "z" >>

\* String.prototype.toLowerCase, of one character and of a string.
toLowerCase_char(c) ==
  IF \E k \in 1..26 : UpperCase[k] = c
  THEN LowerCase[CHOOSE k \in 1..26 : UpperCase[k] = c]
  ELSE c

toLowerCase(str) == [ k \in 1..Len(str) |-> toLowerCase_char(str[k]) ]

\* String.prototype.startsWith, and the search a RegExp of a literal makes.
startsWith(str, prefix) ==
  /\ Len(prefix) <= Len(str)
  /\ SubSeq(str, 1, Len(prefix)) = prefix

includes(str, word) ==
  \E o \in 0..(Len(str) - Len(word)) : SubSeq(str, o + 1, o + Len(word)) = word

\* /google|microsoft|neural|natural|premium/i.test(name)
QualityWords ==
  { << "g", "o", "o", "g", "l", "e" >>,
    << "m", "i", "c", "r", "o", "s", "o", "f", "t" >>,
    << "n", "e", "u", "r", "a", "l" >>,
    << "n", "a", "t", "u", "r", "a", "l" >>,
    << "p", "r", "e", "m", "i", "u", "m" >> }

QualityPattern_test(name) ==
  \E word \in QualityWords : includes(toLowerCase(name), word)

\* The characters of the tags getLanguageCode returns.
Characters(tag) ==
  IF tag = "hi-IN"
  THEN << "h", "i", "-", "I", "N" >>
  ELSE << "e", "n", "-", "U", "S" >>

\* The lang and the name of the voices an engine offers.
VoiceLangs ==
  { << "e", "n", "-", "U", "S" >>, << "e", "n", "-", "u", "s" >>,
    << "e", "n", "-", "G", "B" >>, << "h", "i", "-", "I", "N" >> }
VoiceNames ==
  { << "G", "o", "o", "g", "l", "e" >>,
    << "Z", "i", "r", "a", " ", "N", "E", "U", "R", "A", "L" >>,
    << "S", "a", "m" >> }
Voices == [ lang : VoiceLangs, name : VoiceNames ]
VoiceLists == UNION { [ 1..n -> Voices ] : n \in 0..MaxVoices }

\* undefined: utterance.voice is left to the platform's default.
NoVoice == [ lang |-> << >>, name |-> << >> ]

\* pickBestVoice returning the first voice of the language, whatever its name.
pickBestVoice_firstMatching(voices, lang) ==
  LET matching ==
        SelectSeq(voices,
                  LAMBDA voice : startsWith(toLowerCase(voice.lang), toLowerCase(lang)))
  IN IF Len(matching) = 0 THEN NoVoice ELSE matching[1]

pickBestVoice(voices, lang) ==
  LET matching ==
        SelectSeq(voices,
                  LAMBDA voice : startsWith(toLowerCase(voice.lang), toLowerCase(lang)))
      preferred ==
        SelectSeq(matching, LAMBDA voice : QualityPattern_test(voice.name))
  IN IF Len(matching) = 0
     THEN NoVoice
     ELSE IF preferred # << >> THEN preferred[1] ELSE matching[1]

\* getLanguageCode of the render s, answering "hi-IN" for every selection
\* but "english".
getLanguageCode_englishOrHindi(s) ==
  IF s.selectedLanguage = "english" THEN "en-US" ELSE "hi-IN"

\* getLanguageCode of the render s: the BCP-47 tag of the selection.
getLanguageCode(s) ==
  IF s.selectedLanguage = "hindi" THEN "hi-IN" ELSE "en-US"

\* new SpeechSynthesisUtterance(currentQuestion) of the render s, with its
\* language tag and the handlers of that render; it is not playing yet.
SpeechSynthesisUtterance(s) ==
  [ snap |-> s, speaking |-> FALSE, lang |-> getLanguageCode(s),
    voice |-> pickBestVoice(s.availableVoices, Characters(getLanguageCode(s))) ]

\* speechSynthesis.speak(utterance): the utterance of the render s joins the
\* queue.
speak(w, s) ==
  [ w EXCEPT !.synthQueue = Append(@, SpeechSynthesisUtterance(s)) ]

\* ------------------------------------------------------ silence detection
\* requestAnimationFrame returns an id no scheduled callback has.
NewFrameId(w) ==
  CHOOSE id \in 1..(Cardinality(w.frameCallbacks) + 1) :
    \A f \in w.frameCallbacks : f.id # id

requestAnimationFrame(w, s, n) ==
  LET id == NewFrameId(w) IN
  [ w EXCEPT
      !.frameCallbacks = @ \cup { [ id |-> id, snap |-> s, consecutiveFrames |-> n ] },
      !.animationFrameId = id ]

\* stopSilenceDetection without its cancelAnimationFrame.
stopSilenceDetection_leavesFrame(w) ==
  IF ~w.isActive
  THEN w
  ELSE [ w EXCEPT !.isActive = FALSE, !.animationFrameId = 0 ]

stopSilenceDetection(w) ==
  IF ~w.isActive
  THEN w
  ELSE [ w EXCEPT
           !.isActive = FALSE,
           !.frameCallbacks = { f \in @ : f.id # w.animationFrameId },
           !.animationFrameId = 0 ]

\* startSilenceDetection whose loop starts with a frame already counted.
startSilenceDetection_countsOn(w, s) ==
  IF w.analyserRef = 0 \/ w.isActive
  THEN w
  ELSE requestAnimationFrame([ w EXCEPT !.isActive = TRUE ], s, 1)

\* startSilenceDetection without its check that the detector is idle.
startSilenceDetection_rearms(w, s) ==
  IF w.analyserRef = 0
  THEN w
  ELSE requestAnimationFrame([ w EXCEPT !.isActive = TRUE ], s, 0)

startSilenceDetection(w, s) ==
  IF w.analyserRef = 0 \/ w.isActive
  THEN w
  ELSE requestAnimationFrame([ w EXCEPT !.isActive = TRUE ], s, 0)

\* ------------------------------------------------------------- recording
\* setState of an unmounted component changes nothing: u is w after the
\* setState calls.
SetState(w, u) == IF w.mounted THEN u ELSE w

\* MediaRecorder.stop(): an inactive recorder throws InvalidStateError; a
\* recording one becomes inactive and its stop event is queued.
MediaRecorder_stop(w, rec) ==
  IF w.recorderState[rec] = "inactive"
  THEN [ w EXCEPT !.thrown = @ + 1 ]
  ELSE [ w EXCEPT !.recorderState[rec] = "inactive",
                  !.recorderStopEvents = @ \cup { rec } ]

\* AudioContext.close(): closing a closed context is rejected.
AudioContext_close(w, ctx) ==
  IF w.contextState[ctx] = "closed"
  THEN [ w EXCEPT !.thrown = @ + 1 ]
  ELSE [ w EXCEPT !.contextState[ctx] = "closed" ]

\* stopRecording, statement by statement; s is the render whose
\* stopRecording runs, so mediaRecorder, mediaStream and audioContext are
\* the values of that render.  (First, the variant that stops the recorder
\* without asking for its state.)
stopRecording_recorder_unguarded(w, s) ==
  IF s.mediaRecorder # 0
  THEN MediaRecorder_stop(w, s.mediaRecorder)
  ELSE w

stopRecording_recorder(w, s) ==
  IF s.mediaRecorder # 0 /\ w.recorderState[s.mediaRecorder] # "inactive"
  THEN MediaRecorder_stop(w, s.mediaRecorder)
  ELSE w

setMediaStream(w, v) == SetState(w, [ w EXCEPT !.mediaStream = v ])

stopRecording_tracks(w, s) ==
  IF s.mediaStream # 0
  THEN setMediaStream([ w EXCEPT !.trackLive[s.mediaStream] = FALSE ], 0)
  ELSE w

stopRecording_context(w, s) ==
  IF s.audioContext # 0 /\ w.contextState[s.audioContext] # "closed"
  THEN AudioContext_close(w, s.audioContext)
  ELSE w

stopRecording_flags(w) ==
  SetState([ w EXCEPT !.analyserRef = 0 ],
           [ w EXCEPT !.analyserRef = 0, !.audioContext = 0, !.isRecording = FALSE ])

stopRecording(w, s) ==
  stopRecording_flags(
    stopRecording_context(
      stopRecording_tracks(
        stopRecording_recorder(stopSilenceDetection(w), s), s), s))

\* ------------------------------------------------------------ progression
moveToNextQuestion(w, s) ==
  LET nextIndex == s.currentQuestionIndex + 1 IN
  IF nextIndex < s.questions
  THEN SetState(w, [ w EXCEPT !.currentQuestionIndex = nextIndex ])
  ELSE [ stopRecording(w, s) EXCEPT !.finalizeTimers = @ + 1 ]

\* speakCurrentQuestion without speechSynthesis.cancel().
speakCurrentQuestion_noCancel(w, s, fires) ==
  IF s.questions = 0 \/ s.currentQuestionIndex >= s.questions
  THEN w
  ELSE speak(stopSilenceDetection(w), s)

\* ------------------------------------------------------------------ speech
speakCurrentQuestion(w, s, fires) ==
  IF s.questions = 0 \/ s.currentQuestionIndex >= s.questions
  THEN w
  ELSE speak(stopSilenceDetection(cancel(w, fires)), s)

utterance_onstart(w) ==
  SetState(w, [ w EXCEPT !.isSpeaking = TRUE ])

utterance_onend(w, s) ==
  startSilenceDetection(SetState(w, [ w EXCEPT !.isSpeaking = FALSE ]), s)

\* utterance.onerror clearing the speaking flag without arming the detector.
utterance_onerror_noListening(w, s) ==
  SetState(w, [ w EXCEPT !.isSpeaking = FALSE ])

utterance_onerror(w, s) ==
  startSilenceDetection(SetState(w, [ w EXCEPT !.isSpeaking = FALSE ]), s)


\* The magnitudes a frequency bin is read at: just below SILENCE_THRESHOLD
\* and at it, so that the average of a frame lies below, or at, the threshold.
Levels == { SILENCE_THRESHOLD - 1, SILENCE_THRESHOLD }
DataArrays == [ 1..frequencyBinCount -> Levels ]

RECURSIVE Sum(_, _)
Sum(dataArray, k) == IF k = 0 THEN 0 ELSE dataArray[k] + Sum(dataArray, k - 1)

\* (The variant that takes a frame at the threshold for silence.)
IsSilentFrame_inclusive(dataArray) ==
  Sum(dataArray, frequencyBinCount) <= SILENCE_THRESHOLD * frequencyBinCount

\* average < SILENCE_THRESHOLD, with average = sum / length.
IsSilentFrame(dataArray) ==
  Sum(dataArray, frequencyBinCount) < SILENCE_THRESHOLD * frequencyBinCount

\* (The variant of detectSilence that advances without stopping the
\* detection first.)
detectSilence_keepsListening(w, s, n, dataArray) ==
  IF w.analyserRef = 0
  THEN stopSilenceDetection(w)
  ELSE LET silent == IsSilentFrame(dataArray)
           n1 == IF silent THEN n + 1 ELSE 0
       IN IF silent /\ n1 >= requiredFrames
          THEN moveToNextQuestion(w, s)
          ELSE IF w.isActive THEN requestAnimationFrame(w, s, n1) ELSE w

\* detectSilence without its check that the analyser is still there (the
\* frame it then reads is whatever dataArray holds).
detectSilence_ignoresLoss(w, s, n, dataArray) ==
  LET silent == IsSilentFrame(dataArray)
      n1 == IF silent THEN n + 1 ELSE 0
  IN IF silent /\ n1 >= requiredFrames
     THEN moveToNextQuestion(stopSilenceDetection(w), s)
     ELSE IF w.isActive THEN requestAnimationFrame(w, s, n1) ELSE w

\* One run of the frame callback of the loop that startSilenceDetection(s)
\* started; n is the loop's consecutiveFrames.  The callback has left the
\* scheduled set before it runs.
detectSilence(w, s, n, dataArray) ==
  IF w.analyserRef = 0
  THEN stopSilenceDetection(w)
  ELSE LET silent == IsSilentFrame(dataArray)
           n1 == IF silent THEN n + 1 ELSE 0
       IN IF silent /\ n1 >= requiredFrames
          THEN moveToNextQuestion(stopSilenceDetection(w), s)
          ELSE IF w.isActive THEN requestAnimationFrame(w, s, n1) ELSE w

\* ------------------------------------------------------------ acquisition
\* startRecording up to its await: the device prompt is pending.
startRecording(w) == [ w EXCEPT !.pendingGetUserMedia = @ + 1 ]

\* How getUserMedia and the code after it can end.
Rejections == { "NotAllowedError", "NotFoundError", "NotReadableError", "OtherError" }
Throws == { "noAudioTrack", "recorderThrows", "audioGraphThrows" }
Outcomes == { "ok" } \cup Throws \cup Rejections

errorMsg(outcome) ==
  CASE outcome = "NotAllowedError" -> "Permission denied"
    [] outcome = "NotFoundError" -> "No camera/microphone found"
    [] outcome = "NotReadableError" -> "Camera/microphone is in use"
    [] OTHER -> "Camera/microphone access denied"

\* startRecording's catch block setting the retry counter to 1 rather than
\* counting up.
startRecording_catch_countsOnce(w, outcome) ==
  SetState(w, [ w EXCEPT !.permissionError = errorMsg(outcome),
                         !.permissionRetryCount = 1,
                         !.isRecording = FALSE ])

\* The catch block of startRecording.
startRecording_catch(w, outcome) ==
  SetState(w, [ w EXCEPT !.permissionError = errorMsg(outcome),
                         !.permissionRetryCount = @ + 1,
                         !.isRecording = FALSE ])

\* startRecording after its await, getUserMedia having ended as outcome.
\* The statements of startRecording after its await, in order.  The stream
\* getUserMedia resolved with is w.streams.
getUserMedia_settled(w) == [ w EXCEPT !.pendingGetUserMedia = @ - 1 ]

getUserMedia_resolved(w) ==
  [ w EXCEPT !.streams = @ + 1, !.trackLive[w.streams + 1] = TRUE ]

startRecording_stream(w) == setMediaStream(getUserMedia_resolved(w), w.streams + 1)

startRecording_recorder(w) ==
  SetState([ w EXCEPT !.recorderState[w.streams] = "recording" ],
           [ w EXCEPT !.recorderState[w.streams] = "recording",
                      !.mediaRecorder = w.streams, !.isRecording = TRUE ])

startRecording_audioGraph(w) ==
  SetState([ w EXCEPT !.contextState[w.streams] = "running",
                      !.analyserRef = w.streams ],
           [ w EXCEPT !.contextState[w.streams] = "running",
                      !.analyserRef = w.streams,
                      !.audioContext = w.streams ])

\* The catch block of startRecording, entered with the exception outcome.
startRecording_failed(w, outcome) ==
  startRecording_catch([ w EXCEPT !.failures = @ + 1 ], outcome)

\* startRecording without the check of stream.getAudioTracks(): a stream
\* without an audio track is recorded like any other.
startRecording_resume_noAudioCheck(w, outcome) ==
  CASE outcome \in Rejections ->
         startRecording_failed(getUserMedia_settled(w), outcome)
    [] outcome = "recorderThrows" ->
         startRecording_failed(startRecording_stream(getUserMedia_settled(w)), outcome)
    [] outcome = "audioGraphThrows" ->
         startRecording_failed(
           startRecording_recorder(startRecording_stream(getUserMedia_settled(w))), outcome)
    [] OTHER ->
         startRecording_audioGraph(
           startRecording_recorder(startRecording_stream(getUserMedia_settled(w))))

\* startRecording after its await, getUserMedia having ended as outcome.
startRecording_resume(w, outcome) ==
  CASE outcome \in Rejections ->
         startRecording_failed(getUserMedia_settled(w), outcome)
    [] outcome = "noAudioTrack" ->
         startRecording_failed(getUserMedia_resolved(getUserMedia_settled(w)), outcome)
    [] outcome = "recorderThrows" ->
         startRecording_failed(startRecording_stream(getUserMedia_settled(w)), outcome)
    [] outcome = "audioGraphThrows" ->
         startRecording_failed(
           startRecording_recorder(startRecording_stream(getUserMedia_settled(w))), outcome)
    [] OTHER ->
         startRecording_audioGraph(
           startRecording_recorder(startRecording_stream(getUserMedia_settled(w))))

\* The sizes of the data of a dataavailable event: none, or some.
DataSizes == { 0, 1 }

\* The next dataavailable event of the recorder rec, with data of the size.
BlobEvent(w, rec, size) ==
  [ recorder |-> rec, number |-> Len(w.emitted[rec]) + 1, size |-> size ]

\* recorder.ondataavailable pushing the data whatever its size.
recorder_ondataavailable_keepsEmpty(w, rec, event) ==
  [ w EXCEPT !.chunks[rec] = Append(@, event) ]

\* recorder.ondataavailable of the recorder rec.
recorder_ondataavailable(w, rec, event) ==
  IF event.size > 0
  THEN [ w EXCEPT !.chunks[rec] = Append(@, event) ]
  ELSE w

\* recorder.onstop of the recorder rec: the Blob of its chunks.
recorder_onstop(w, rec) ==
  SetState([ w EXCEPT !.blobs = @ + 1, !.artifact[rec] = Blob(w.chunks[rec]) ],
           [ w EXCEPT !.blobs = @ + 1, !.artifact[rec] = Blob(w.chunks[rec]),
                      !.videoBlob = w.blobs + 1 ])

\* uploadVideo up to its fetch.
uploadVideo(w) ==
  SetState([ w EXCEPT !.uploads = @ + 1, !.pendingUploads = @ + 1 ],
           [ w EXCEPT !.uploads = @ + 1, !.pendingUploads = @ + 1,
                      !.isUploading = TRUE, !.uploadError = "" ])

\* uploadVideo after its fetch, the response being ok.
uploadVideo_ok(w) ==
  SetState([ w EXCEPT !.pendingUploads = @ - 1 ],
           [ w EXCEPT !.pendingUploads = @ - 1, !.isUploading = FALSE ])

\* The catch block of uploadVideo with a retry of the upload added.
uploadVideo_catch_retries(w) ==
  uploadVideo(SetState([ w EXCEPT !.pendingUploads = @ - 1 ],
                       [ w EXCEPT !.pendingUploads = @ - 1,
                                  !.uploadError = "Failed to save video",
                                  !.isUploading = FALSE ]))

\* The catch block of uploadVideo: the fetch was rejected or the response
\* was not ok.
uploadVideo_catch(w) ==
  SetState([ w EXCEPT !.pendingUploads = @ - 1 ],
           [ w EXCEPT !.pendingUploads = @ - 1,
                      !.uploadError = "Failed to save video",
                      !.isUploading = FALSE ])

\* ------------------------------------------------------------ the effects
\* The render after a handler and the effects whose dependencies changed:
\* old is the world as last rendered, new the world the handler left.  The
\* cleanups of the previous run come first, then the bodies, both in the
\* order of the hooks.
\* Each effect below takes old and new as above and w, the world so far.
speechDeps(old, new) ==
  old.isInterviewStarted # new.isInterviewStarted \/ old.questions # new.questions

indexDeps(old, new) == old.currentQuestionIndex # new.currentQuestionIndex

recordingDeps(old, new) == old.isInterviewStarted # new.isInterviewStarted

blobDeps(old, new) == old.videoBlob # new.videoBlob

\* return () => clearTimeout(timer), of the two speech effects.
speechEffect_cleanup(old, new, w) ==
  IF speechDeps(old, new) THEN [ w EXCEPT !.speechTimer = clearTimeout(@) ] ELSE w

\* The index effect returning nothing: its timer is never cleared.
indexEffect_cleanup_keepsTimer(old, new, w) == w

indexEffect_cleanup(old, new, w) ==
  IF indexDeps(old, new) THEN [ w EXCEPT !.indexTimer = clearTimeout(@) ] ELSE w

\* return () => { if (isRecording) stopRecording() }, with the isRecording
\* and the stopRecording of the render that ran the effect.
recordingEffect_cleanup(old, new, w) ==
  IF recordingDeps(old, new) /\ w.recordingCleanup.isRecording
  THEN stopRecording(w, w.recordingCleanup)
  ELSE w

speechEffect(old, new, w) ==
  IF speechDeps(old, new) /\ new.isInterviewStarted /\ new.questions > 0 /\ ~new.isSpeaking
  THEN [ w EXCEPT !.speechTimer = setTimeout(@, Snap(new)) ]
  ELSE w

indexEffect(old, new, w, fires) ==
  IF indexDeps(old, new) /\ new.isInterviewStarted /\ new.questions > 0
  THEN [ cancel(w, fires) EXCEPT !.indexTimer = setTimeout(@, Snap(new)) ]
  ELSE w

recordingEffect(old, new, w) ==
  IF ~recordingDeps(old, new)
  THEN w
  ELSE IF new.isInterviewStarted /\ ~new.isRecording
       THEN [ startRecording(w) EXCEPT !.recordingCleanup = Snap(new) ]
       ELSE [ w EXCEPT !.recordingCleanup = Snap(new) ]

uploadEffect(old, new, w) ==
  IF blobDeps(old, new) /\ new.videoBlob # 0 THEN uploadVideo(w) ELSE w

Render(old, new, fires) ==
  IF ~new.mounted
  THEN new
  ELSE uploadEffect(old, new,
         recordingEffect(old, new,
           indexEffect(old, new,
             speechEffect(old, new,
               recordingEffect_cleanup(old, new,
                 indexEffect_cleanup(old, new,
                   speechEffect_cleanup(old, new, new)))),
             fires)))

\* Unmounting runs every cleanup.
Unmounted_timers(w) ==
  [ w EXCEPT !.speechTimer = clearTimeout(@), !.indexTimer = clearTimeout(@) ]

Unmounted_recording(w) ==
  IF w.recordingCleanup.isRecording
  THEN stopRecording(w, w.recordingCleanup)
  ELSE w

Unmounted(w) ==
  [ Unmounted_recording(Unmounted_timers(w)) EXCEPT !.mounted = FALSE ]


\* -------------------------------------------------------------- the screen
\* Which of the component's returns is rendered (the campaign has loaded).
Screen(w) ==
  CASE w.isCompleted -> "completed"
    [] ~w.isCompleted /\ ~w.isPrepared -> "setup"
    [] ~w.isCompleted /\ w.isPrepared /\ ~w.isInterviewStarted -> "prepared"
    [] ~w.isCompleted /\ w.isPrepared /\ w.isInterviewStarted /\ w.questions > 0 -> "interview"
    [] OTHER -> "blank"

\* A click reaches a mounted component; the speech engine has delivered the
\* events of the utterances it cancelled before the user clicks again.
CanClick == mounted /\ cancelledUtterances = << >>

\* What the last step was: its kind and, for a step of a detection loop or
\* an utterance, the question index and list length its functions read.
Observed ==
  { "turnComplete", "complete", "onerror", "uploadFailed", "recorderError",
    "previous", "navigatedAgain", "speak", "noAudioTrack",
    "abort" }
Event(kind, s) ==
  IF kind \in Observed
  THEN [ kind |-> kind, index |-> s.currentQuestionIndex, total |-> s.questions ]
  ELSE [ kind |-> "other", index |-> 0, total |-> 0 ]

\* A handler that left the world h, then the render; fires decides the
\* events of utterances cancelled in the step.
Commit(h, fires, ev) ==
  \E w \in { h } :
    \E r \in { Render(World, w, fires) } :
      Becomes([ r EXCEPT !.lastEvent = ev ])

Step(h, fires, ev) ==
  /\ Commit(h, fires, ev)
  /\ heard' = heard

\* The component as mounted, with pending calls of getUserMedia unanswered.
Mounted(pending) ==
  /\ isPrepared = FALSE
  /\ isInterviewStarted = FALSE
  /\ isCompleted = FALSE
  /\ questions = 0
  /\ currentQuestionIndex = 0
  /\ isSpeaking = FALSE
  /\ isRecording = FALSE
  /\ mediaRecorder = 0
  /\ mediaStream = 0
  /\ audioContext = 0
  /\ videoBlob = 0
  /\ permissionError = ""
  /\ permissionRetryCount = 0
  /\ callConsentAccepted = FALSE
  /\ analyserRef = 0
  /\ isActive = FALSE
  /\ animationFrameId = 0
  /\ speechTimer = NoTimer
  /\ indexTimer = NoTimer
  /\ recordingCleanup = NoSnap
  /\ finalizeTimers = 0
  /\ mounted = TRUE
  /\ synthQueue = << >>
  /\ cancelledUtterances = << >>
  /\ frameCallbacks = {}
  /\ pendingGetUserMedia = pending
  /\ streams = 0
  /\ trackLive = [ s \in Streams |-> FALSE ]
  /\ recorderState = [ s \in Streams |-> "none" ]
  /\ recorderStopEvents = {}
  /\ contextState = [ s \in Streams |-> "none" ]
  /\ blobs = 0
  /\ uploads = 0
  /\ interviews = 0
  /\ failures = 0
  /\ thrown = 0
  /\ lastEvent = Event("mount", NoSnap)
  /\ heard = << >>
  /\ isUploading = FALSE
  /\ uploadError = ""
  /\ pendingUploads = 0
  /\ selectedLanguage = "english"
  /\ chunks = [ s \in Streams |-> << >> ]
  /\ emitted = [ s \in Streams |-> << >> ]
  /\ artifact = [ s \in Streams |-> NoBlob ]
  /\ availableVoices = << >>

\* The state after construction.
Init == Mounted(0)

\* ----------------------------------------------------------- setup screens
\* "Start Testimonial": generateQuestions returns n questions.
\* handleStartTestimonial, generateQuestions having resolved, for at most
\* limit interviews.
handleStartTestimonial_upTo(limit) ==
  /\ CanClick /\ Screen(World) = "setup"
  /\ interviews < limit
  /\ ~speechTimer.pending /\ ~indexTimer.pending /\ finalizeTimers = 0
  /\ \E n \in 1..MaxQuestions :
       Step([ World EXCEPT !.isCompleted = FALSE, !.videoBlob = 0,
                           !.isUploading = FALSE, !.uploadError = "",
                           !.questions = n, !.isPrepared = TRUE,
                           !.currentQuestionIndex = 0,
                           !.interviews = @ + 1 ],
            FALSE, Event("start", NoSnap))

handleStartTestimonial == handleStartTestimonial_upTo(MaxInterviews)

\* The options of the language <select>.
LanguageOptions == { "english", "hindi" }

\* loadVoices, getVoices() returning voices.
loadVoices(w, voices) ==
  IF Len(voices) > 0
  THEN SetState(w, [ w EXCEPT !.availableVoices = voices ])
  ELSE w

\* speechSynthesis fires voiceschanged while the setup screen is shown.
VoicesChanged ==
  /\ mounted /\ Screen(World) = "setup"
  /\ \E voices \in VoiceLists :
       Step(loadVoices(World, voices), FALSE, Event("voiceschanged", NoSnap))

\* The user picks an option of the language <select> of the setup screen.
LanguageChange ==
  /\ CanClick /\ Screen(World) = "setup"
  /\ \E option \in LanguageOptions :
       /\ option # selectedLanguage
       /\ Step([ World EXCEPT !.selectedLanguage = option ],
               FALSE, Event("language", NoSnap))

ConsentChange ==
  /\ CanClick /\ Screen(World) = "prepared"
  /\ Step([ World EXCEPT !.callConsentAccepted = ~@ ], FALSE, Event("consent", NoSnap))

\* "Join Feedback Call" enabled, and handleBeginInterview going on, without
\* the consent.
handleBeginInterview_withoutConsent ==
  /\ CanClick /\ Screen(World) = "prepared"
  /\ streams + failures + pendingGetUserMedia < MaxAcquisitions
  /\ Step([ World EXCEPT !.isCompleted = FALSE, !.isInterviewStarted = TRUE ],
          FALSE, Event("begin", NoSnap))

\* "Join Feedback Call".  The recording effect calls startRecording.
handleBeginInterview ==
  /\ CanClick /\ Screen(World) = "prepared"
  /\ callConsentAccepted
  /\ streams + failures + pendingGetUserMedia < MaxAcquisitions
  /\ Step([ World EXCEPT !.isCompleted = FALSE, !.isInterviewStarted = TRUE ],
          FALSE, Event("begin", NoSnap))

BackClick ==
  /\ CanClick /\ Screen(World) = "prepared"
  /\ Step([ World EXCEPT !.isPrepared = FALSE, !.questions = 0,
                         !.isCompleted = FALSE, !.callConsentAccepted = FALSE ],
          FALSE, Event("back", NoSnap))

RecordAnotherClick ==
  /\ CanClick /\ Screen(World) = "completed"
  /\ Step([ World EXCEPT !.isCompleted = FALSE, !.isPrepared = FALSE,
                         !.questions = 0, !.currentQuestionIndex = 0,
                         !.isUploading = FALSE, !.uploadError = "",
                         !.videoBlob = 0, !.callConsentAccepted = FALSE ],
          FALSE, Event("recordAnother", NoSnap))

\* navigate('/') or any other unmount of the page.
Unmount ==
  /\ CanClick
  /\ \E w \in { Unmounted(World) } :
       Becomes([ w EXCEPT !.lastEvent = Event("unmount", NoSnap) ])
  /\ heard' = heard

\* ------------------------------------------------------------------ timers
SpeechTimerFires ==
  \E s \in PendingTimers(speechTimer), fires \in BOOLEAN :
    Step(speakCurrentQuestion([ World EXCEPT !.speechTimer = Fired(@, s) ], s, fires),
         fires, Event("speak", s))

IndexTimerFires ==
  \E s \in PendingTimers(indexTimer), fires \in BOOLEAN :
    Step(speakCurrentQuestion([ World EXCEPT !.indexTimer = Fired(@, s) ], s, fires),
         fires, Event("speak", s))

\* The timer moveToNextQuestion sets after the last question.
FinalizeTimerFires ==
  /\ finalizeTimers > 0
  /\ LET w == [ World EXCEPT !.finalizeTimers = @ - 1 ] IN
     Step(SetState(w, [ w EXCEPT !.isInterviewStarted = FALSE, !.isPrepared = FALSE,
                                 !.questions = 0, !.isCompleted = TRUE ]),
          FALSE, Event("complete", NoSnap))

\* ------------------------------------------------------------ speech events
\* The engine delivers the events of cancelled utterances first.
UtteranceStart ==
  /\ synthQueue # << >> /\ ~Head(synthQueue).speaking
  /\ cancelledUtterances = << >>
  /\ Step(utterance_onstart([ World EXCEPT !.synthQueue[1].speaking = TRUE ]),
          FALSE, Event("onstart", Head(synthQueue).snap))

UtteranceEnd ==
  /\ synthQueue # << >> /\ Head(synthQueue).speaking
  /\ cancelledUtterances = << >>
  /\ Step(utterance_onend([ World EXCEPT !.synthQueue = Tail(@) ], Head(synthQueue).snap),
          FALSE, Event("onend", Head(synthQueue).snap))

UtteranceError ==
  /\ synthQueue # << >>
  /\ cancelledUtterances = << >>
  /\ Step(utterance_onerror([ World EXCEPT !.synthQueue = Tail(@) ], Head(synthQueue).snap),
          FALSE, Event("onerror", Head(synthQueue).snap))

\* The error event ("interrupted" or "canceled") of a cancelled utterance.
CancelledUtteranceError ==
  /\ cancelledUtterances # << >>
  /\ Step(utterance_onerror([ World EXCEPT !.cancelledUtterances = Tail(@) ],
                            Head(cancelledUtterances)),
          FALSE, Event("oncancelled", Head(cancelledUtterances)))

\* --------------------------------------------------------------- the device
GetUserMedia(outcome) ==
  /\ pendingGetUserMedia > 0
  /\ Step(startRecording_resume(World, outcome), FALSE, Event(outcome, NoSnap))

GetUserMediaSettles == \E outcome \in Outcomes : GetUserMedia(outcome)

retryPermission ==
  /\ CanClick /\ Screen(World) = "interview"
  /\ permissionError # "" /\ ~isRecording
  /\ streams + failures + pendingGetUserMedia < MaxAcquisitions
  /\ Step(startRecording([ World EXCEPT !.permissionError = "" ]),
          FALSE, Event("retry", NoSnap))

\* "Back to Setup" leaving the retry counter as it is.
AbortClick_keepsRetryCount ==
  /\ CanClick /\ Screen(World) = "interview"
  /\ permissionError # ""
  /\ Step([ World EXCEPT !.isInterviewStarted = FALSE, !.permissionError = "" ],
          FALSE, Event("abort", NoSnap))

\* "Back to Setup" of the permission panel.
AbortClick ==
  /\ CanClick /\ Screen(World) = "interview"
  /\ permissionError # ""
  /\ Step([ World EXCEPT !.isInterviewStarted = FALSE, !.permissionError = "",
                         !.permissionRetryCount = 0 ],
          FALSE, Event("abort", NoSnap))

\* recorder.onstop: the chunks become one Blob.
RecorderStop ==
  /\ \E rec \in recorderStopEvents :
       Step(recorder_onstop([ World EXCEPT !.recorderStopEvents = @ \ { rec } ], rec),
            FALSE, Event("onstop", NoSnap))

\* The recorder rec, recording or stopped with its stop event still to
\* come, fires dataavailable with data of the given size.
DataAvailable ==
  \E rec \in Streams, size \in DataSizes :
    /\ recorderState[rec] = "recording" \/ rec \in recorderStopEvents
    /\ Len(emitted[rec]) < MaxChunks
    /\ Step(recorder_ondataavailable(
              [ World EXCEPT !.emitted[rec] = Append(@, BlobEvent(World, rec, size)) ],
              rec, BlobEvent(World, rec, size)),
            FALSE, Event("dataavailable", NoSnap))

\* ---------------------------------------------------------- animation frame
\* The browser runs the scheduled callback f; the analyser reads dataArray.
\* The step is a turn-complete when the callback called moveToNextQuestion.
Frame(f, dataArray) ==
  LET w == [ World EXCEPT !.frameCallbacks = @ \ { f } ]
      h == detectSilence(w, f.snap, f.consecutiveFrames, dataArray)
      turn == analyserRef # 0 /\ IsSilentFrame(dataArray)
                /\ f.consecutiveFrames + 1 >= requiredFrames
  IN Commit(h, FALSE, Event(IF turn THEN "turnComplete" ELSE "frame", f.snap))

AnimationFrame ==
  /\ \E f \in frameCallbacks, dataArray \in DataArrays : Frame(f, dataArray)
  /\ heard' = heard

\* ------------------------------------------------------- interview controls
PreviousClick ==
  /\ CanClick /\ Screen(World) = "interview"
  /\ currentQuestionIndex > 0
  /\ \E fires \in BOOLEAN :
       LET c == stopSilenceDetection(cancel(World, fires)) IN
       Step([ c EXCEPT !.isSpeaking = FALSE,
                       !.currentQuestionIndex = currentQuestionIndex - 1 ],
            fires,
            Event(IF indexTimer.pending THEN "navigatedAgain" ELSE "previous",
                  Snap(World)))

FinishNowClick ==
  /\ CanClick /\ Screen(World) = "interview"
  /\ currentQuestionIndex = questions - 1
  /\ \E fires \in BOOLEAN :
       LET c == cancel(World, fires)
           r == stopRecording([ c EXCEPT !.isSpeaking = FALSE ], Snap(World))
       IN Step([ r EXCEPT !.isInterviewStarted = FALSE, !.isPrepared = FALSE,
                          !.questions = 0, !.isCompleted = TRUE ],
               fires, Event("finishNow", Snap(World)))

Next ==
  \/ handleStartTestimonial
  \/ ConsentChange
  \/ handleBeginInterview
  \/ BackClick
  \/ RecordAnotherClick
  \/ Unmount
  \/ SpeechTimerFires
  \/ IndexTimerFires
  \/ FinalizeTimerFires
  \/ UtteranceStart
  \/ UtteranceEnd
  \/ UtteranceError
  \/ CancelledUtteranceError
  \/ GetUserMediaSettles
  \/ retryPermission
  \/ AbortClick
  \/ RecorderStop
  \/ AnimationFrame
  \/ PreviousClick
  \/ FinishNowClick

Spec == Init /\ [][Next]_vars

\* ----------------------------------------------------------------- the upload
\* The response of an upload arrives and is ok.
UploadSucceeds ==
  /\ pendingUploads > 0
  /\ Step(uploadVideo_ok(World), FALSE, Event("uploaded", NoSnap))

\* The fetch of an upload is rejected, or its response is not ok.
UploadFails ==
  /\ pendingUploads > 0
  /\ Step(uploadVideo_catch(World), FALSE, Event("uploadFailed", NoSnap))

\* ------------------------------------------------------------ recorder error
\* A recorder that records reports an error: recorder.onerror logs it.
\* Whether the browser goes on recording or inactivates the recorder and
\* queues its stop event depends on the error; stops chooses.
RecorderError ==
  \E rec \in Streams, stops \in BOOLEAN :
    /\ recorderState[rec] = "recording"
    /\ Step(IF stops
            THEN [ World EXCEPT !.recorderState[rec] = "inactive",
                                !.recorderStopEvents = @ \cup { rec } ]
            ELSE World,
            FALSE, Event("recorderError", NoSnap))

\* ------------------------------------------------ the uninterrupted interview
\* The interview with a respondent who grants the devices and only answers:
\* no Previous, no Finish Now, no abort; the page may be left at any moment.
\* Every timer fires, the device prompt is answered, every utterance starts
\* and then ends or errors, the recorder delivers its stop event, and in
\* each turn the respondent falls silent for requiredFrames frames in a row
\* at last (the turn-complete frame is strongly fair: it is enabled whenever
\* the count stands at requiredFrames - 1).
AcquisitionSucceeds == GetUserMedia("ok")

UtteranceTerminates == UtteranceEnd \/ UtteranceError

TurnCompleteFrame == AnimationFrame /\ lastEvent'.kind = "turnComplete"

NextAuto ==
  \/ handleStartTestimonial
  \/ ConsentChange
  \/ handleBeginInterview
  \/ SpeechTimerFires
  \/ IndexTimerFires
  \/ FinalizeTimerFires
  \/ UtteranceStart
  \/ UtteranceEnd
  \/ UtteranceError
  \/ AcquisitionSucceeds
  \/ RecorderStop
  \/ AnimationFrame
  \/ Unmount

SpecAuto ==
  /\ Init /\ [][NextAuto]_vars
  /\ WF_vars(SpeechTimerFires) /\ WF_vars(IndexTimerFires)
  /\ WF_vars(FinalizeTimerFires)
  /\ WF_vars(UtteranceStart) /\ WF_vars(UtteranceTerminates)
  /\ WF_vars(AcquisitionSucceeds) /\ WF_vars(RecorderStop)
  /\ WF_vars(AnimationFrame) /\ SF_vars(TurnCompleteFrame)

\* ------------------------------------------------- the detector on its own
\* One arming of the detector fed every stream of frames: the state is
\* Listening(i) of an interview over n questions (stream 1 recording, the
\* loop scheduled with a count of 0), and heard collects the sum of the
\* magnitudes of every frame the loop has read since.
MaxHeard == 2 * requiredFrames

ListeningSnap(n, i) ==
  IF i = 0
  THEN [ questions |-> n, currentQuestionIndex |-> 0, mediaRecorder |-> 0,
         mediaStream |-> 0, audioContext |-> 0, isRecording |-> FALSE,
         selectedLanguage |-> "english", availableVoices |-> << >> ]
  ELSE [ questions |-> n, currentQuestionIndex |-> i, mediaRecorder |-> 1,
         mediaStream |-> 1, audioContext |-> 1, isRecording |-> TRUE,
         selectedLanguage |-> "english", availableVoices |-> << >> ]

\* A detection loop of the render of question i of n is scheduled, its count
\* at count; analyser is what analyserRef holds, error and speaking the
\* permission error and the speaking flag.
Detecting(n, i, analyser, count, error, speaking) ==
  /\ isPrepared = TRUE
  /\ isInterviewStarted = TRUE
  /\ isCompleted = FALSE
  /\ questions = n
  /\ currentQuestionIndex = i
  /\ isSpeaking = speaking
  /\ isRecording = TRUE
  /\ mediaRecorder = 1
  /\ mediaStream = 1
  /\ audioContext = 1
  /\ videoBlob = 0
  /\ permissionError = error
  /\ permissionRetryCount = 0
  /\ callConsentAccepted = TRUE
  /\ analyserRef = analyser
  /\ isActive = TRUE
  /\ animationFrameId = 1
  /\ speechTimer = NoTimer
  /\ indexTimer = NoTimer
  /\ recordingCleanup = ListeningSnap(n, 0)
  /\ finalizeTimers = 0
  /\ mounted = TRUE
  /\ synthQueue = << >>
  /\ cancelledUtterances = << >>
  /\ frameCallbacks = { [ id |-> 1, snap |-> ListeningSnap(n, i), consecutiveFrames |-> count ] }
  /\ pendingGetUserMedia = 0
  /\ streams = 1
  /\ trackLive = [ s \in Streams |-> s = 1 ]
  /\ recorderState = [ s \in Streams |-> IF s = 1 THEN "recording" ELSE "none" ]
  /\ recorderStopEvents = {}
  /\ contextState = [ s \in Streams |-> IF s = 1 THEN "running" ELSE "none" ]
  /\ blobs = 0
  /\ uploads = 0
  /\ interviews = 1
  /\ failures = 0
  /\ thrown = 0
  /\ isUploading = FALSE
  /\ uploadError = ""
  /\ pendingUploads = 0
  /\ selectedLanguage = "english"
  /\ chunks = [ s \in Streams |-> << >> ]
  /\ emitted = [ s \in Streams |-> << >> ]
  /\ artifact = [ s \in Streams |-> NoBlob ]
  /\ availableVoices = << >>

\* The component listening to the answer to question i of n.
Listening(n, i) == Detecting(n, i, 1, 0, "", FALSE)

InitVAD ==
  /\ \E n \in 1..MaxQuestions : \E i \in 0..(n - 1) : Listening(n, i)
  /\ lastEvent = Event("onend", NoSnap)
  /\ heard = << >>

ListenFrame ==
  /\ Len(heard) < MaxHeard
  /\ \E f \in frameCallbacks, dataArray \in DataArrays :
       /\ Frame(f, dataArray)
       /\ heard' = Append(heard, Sum(dataArray, frequencyBinCount))

NextVAD == ListenFrame

SpecVAD == InitVAD /\ [][NextVAD]_vars


\* ================================================================== claims
\* The interview is on screen: begun, not finished, not aborted.
InProgress == mounted /\ isInterviewStarted /\ questions > 0

AllReleased ==
  \A s \in Streams : ~trackLive[s] /\ recorderState[s] # "recording"

\* C1  Mutual exclusion of speaking and listening: while the component is
\* mounted the speaking flag (isSpeaking) and the VAD-armed flag
\* (silenceDetectionRef.isActive) are never both true.
C1_MutualExclusion == mounted => ~(isSpeaking /\ isActive)

\* C2  Exactly-once advancement: when the detection loop that was armed for
\* the current question (its functions read the controller's present index
\* and list) reports turn-complete, that one step either sets the index to
\* i+1 (i+1 < N) or starts the finalization (stopRecording and the
\* completion timer) and leaves the index alone, and it leaves the VAD
\* disarmed with no frame callback scheduled, so the arming cannot report a
\* second time.
C2_ExactlyOnceAdvancement ==
  [][ ( /\ lastEvent'.kind = "turnComplete"
        /\ InProgress
        /\ lastEvent'.index = currentQuestionIndex
        /\ lastEvent'.total = questions )
      => /\ ~isActive' /\ frameCallbacks' = {}
         /\ IF currentQuestionIndex + 1 < questions
            THEN /\ currentQuestionIndex' = currentQuestionIndex + 1
                 /\ finalizeTimers' = finalizeTimers
                 /\ isRecording' = isRecording
            ELSE /\ currentQuestionIndex' = currentQuestionIndex
                 /\ finalizeTimers' = finalizeTimers + 1
                 /\ ~isRecording' ]_vars

\* The turn-complete of question 1 has moved the controller to question 2
\* and the transition timer for it is pending.
C2_Witness ==
  /\ InProgress /\ lastEvent.kind = "turnComplete"
  /\ lastEvent.index = 1 /\ currentQuestionIndex = 2
  /\ indexTimer.pending /\ ~isActive

\* C3  Stale turn-complete signals are discarded: a turn-complete of a
\* detection loop armed for another index than the one the controller is at
\* leaves currentQuestionIndex unchanged.
C3_StaleTurnCompleteDiscarded ==
  [][ ( /\ lastEvent'.kind = "turnComplete"
        /\ InProgress
        /\ lastEvent'.index # currentQuestionIndex )
      => currentQuestionIndex' = currentQuestionIndex ]_vars

\* C4  Resource release on the normal finish: right after the turn-complete
\* on the last prompt has run stopRecording, every acquired track is stopped
\* and no recorder is recording.
C4_ReleasedOnEveryExit ==
  ( /\ lastEvent.kind = "turnComplete"
    /\ lastEvent.index + 1 >= lastEvent.total )
  => AllReleased


\* C5  End-to-end progress: in the uninterrupted interview (SpecAuto: the
\* acquisition succeeds, every utterance ends or errors, every turn ends in
\* requiredFrames silent frames) a begun interview leads to the completed
\* state with the capture session stopped and one artifact handed to the
\* upload, unless the page is left first.
C5_EndToEndProgress ==
  isInterviewStarted ~> ((isCompleted /\ AllReleased /\ uploads = 1) \/ ~mounted)

\* A speech, timer, acquisition or detection event is pending.
PendingEvent ==
  \/ speechTimer.pending \/ indexTimer.pending \/ finalizeTimers > 0
  \/ synthQueue # << >> \/ cancelledUtterances # << >>
  \/ pendingGetUserMedia > 0
  \/ frameCallbacks # {}

\* The interview screen offers retry and abort (permission panel), Previous
\* or Finish Now.
OfferedAction ==
  \/ permissionError # ""
  \/ currentQuestionIndex > 0
  \/ currentQuestionIndex = questions - 1

\* C6  No dead end: whenever the interview is in progress, a speech, timer,
\* acquisition or detection event is pending, or the screen offers a user
\* action (retry or abort on the permission panel, Previous, Finish Now).
C6_NoDeadEnd == InProgress => (PendingEvent \/ OfferedAction)

\* A frame whose magnitudes add up to sum has its mean below the threshold.
BelowThreshold(sum) == sum < SILENCE_THRESHOLD * frequencyBinCount

\* The length of the run of frames below the threshold that ends h.
RECURSIVE SilentRun(_)
SilentRun(h) ==
  IF h = << >> \/ ~BelowThreshold(h[Len(h)])
  THEN 0
  ELSE 1 + SilentRun(SubSeq(h, 1, Len(h) - 1))

SpeechPending ==
  \/ speechTimer.pending \/ indexTimer.pending
  \/ synthQueue # << >> \/ cancelledUtterances # << >>

\* C8  Permission-failure recovery: the step in which the acquisition
\* started by retryPermission succeeds after the first one was rejected
\* (retry counter 1) leaves the failure cleared, the capture active, and
\* prompt 0 being spoken or about to be, or the VAD armed for it.
C8_PermissionRecovery ==
  [][ ( /\ InProgress
        /\ failures = 1 /\ streams = 0 /\ permissionRetryCount = 1
        /\ pendingGetUserMedia = 1 /\ permissionError = ""
        /\ streams' = 1 /\ failures' = 1 )
      => /\ permissionError' = "" /\ isRecording' /\ analyserRef' # 0
         /\ currentQuestionIndex' = 0
         /\ (SpeechPending' \/ isActive') ]_vars

\* C9  One artifact, one finish: once the finalization that follows silence
\* on the last prompt has signalled completion, with the capture acquired
\* once and no recorder stop event outstanding, one artifact has been
\* recorded and it has been handed to the upload once.
C9_OneArtifactOneFinish ==
  ( /\ mounted /\ isCompleted /\ lastEvent.kind = "complete"
    /\ streams = 1 /\ failures = 0 /\ pendingGetUserMedia = 0
    /\ recorderStopEvents = {} /\ finalizeTimers = 0 )
  => (blobs = 1 /\ uploads = 1)

\* The renders whose functions can still be called: the one on screen and
\* those held by timers, effect cleanups, utterances and frame callbacks.
Closures ==
  { Snap(World), speechTimer.snap, indexTimer.snap, recordingCleanup }
    \cup { synthQueue[i].snap : i \in 1..Len(synthQueue) }
    \cup { cancelledUtterances[i] : i \in 1..Len(cancelledUtterances) }
    \cup { f.snap : f \in frameCallbacks }

\* C10  Idempotent teardown: no call of stopRecording has raised an error,
\* and in every state, for every render s whose stopRecording can still be
\* called, a second call by the same render (and, for the render on screen,
\* by the render that follows the first call) changes nothing that the
\* first call left: the recorder of s is inactive with its one stop event,
\* its tracks are released, its context is closed and the VAD is disarmed.
C10_IdempotentTeardown ==
  /\ thrown = 0
  /\ \A s \in Closures :
       \A once \in { stopRecording(World, s) } :
         /\ stopRecording(once, s) = once
         /\ (s = Snap(World)) => (stopRecording(once, Snap(once)) = once)
         /\ once.thrown = 0
         /\ ~once.isActive /\ once.analyserRef = 0
         /\ s.mediaStream # 0 => ~once.trackLive[s.mediaStream]
         /\ s.mediaRecorder # 0 => once.recorderState[s.mediaRecorder] = "inactive"
         /\ s.audioContext # 0 => once.contextState[s.audioContext] = "closed"

\* stopRecording has run twice on a live capture: silence on the last prompt
\* stopped it, and Finish Now was clicked within the finalization delay.
C10_Witness ==
  /\ mounted /\ isCompleted /\ finalizeTimers = 1
  /\ lastEvent.kind = "other"
  /\ streams = 1 /\ recorderState[1] = "inactive" /\ ~trackLive[1]
  /\ contextState[1] = "closed"
  /\ Cardinality(recorderStopEvents) + blobs = 1
  /\ thrown = 0

\* C11  Finalization resets interview state: the step that reaches the
\* completed state (the completion timer after silence on the last prompt,
\* or Finish Now) leaves currentQuestionIndex at 0 and the speaking and
\* recording flags false.
C11_FinalizationResets ==
  [][ (mounted /\ ~isCompleted /\ isCompleted')
      => (currentQuestionIndex' = 0 /\ ~isSpeaking' /\ ~isRecording') ]_vars

\* The interview screen shows the Finish Now button.
FinishNowOffered ==
  Screen(World) = "interview" /\ currentQuestionIndex = questions - 1

\* C12  Emergency finish from any state: whenever the interview is in
\* progress, at any index, the Finish Now action is offered.
C12_EmergencyFinishAnywhere == InProgress => FinishNowOffered

\* C14  Every capture-acquisition failure is recorded: the reasons shown for
\* permission denied, device not found and device busy are non-empty and
\* differ from one another; a failing start() leaves a non-empty reason, the
\* retry counter one higher and the recording flag false; and the counter
\* changes in no other way than by such a failure or by the abort that
\* resets it to 0.
C14_FailureRecorded ==
  /\ \A a, b \in { "NotAllowedError", "NotFoundError", "NotReadableError" } :
       errorMsg(a) # "" /\ (a # b => errorMsg(a) # errorMsg(b))
  /\ [][ /\ (mounted /\ failures' = failures + 1)
            => /\ permissionError' # ""
               /\ permissionError' \in { errorMsg(o) : o \in Outcomes \ { "ok" } }
               /\ permissionRetryCount' = permissionRetryCount + 1
               /\ ~isRecording'
         /\ (permissionRetryCount' # permissionRetryCount)
            => \/ /\ failures' = failures + 1
                  /\ permissionRetryCount' = permissionRetryCount + 1
               \/ /\ permissionRetryCount' = 0
                  /\ isInterviewStarted /\ ~isInterviewStarted'
                  /\ permissionError' = "" ]_vars

\* Two attempts have failed, the second for want of a device.
C14_Witness ==
  /\ mounted /\ failures = 2 /\ permissionRetryCount = 2
  /\ permissionError = errorMsg("NotFoundError")
  /\ ~isRecording

\* ------------------------------------------- an interview after another
\* The setup screen after an interview that was finished (Finish Now on its
\* only prompt) before the device prompt was answered, and Record Another:
\* the component is as mounted but for the call of getUserMedia that is
\* still unanswered.  The counters of the run start again.
InitSecondInterview == Mounted(1)

NextSecondInterview ==
  \/ handleStartTestimonial
  \/ ConsentChange
  \/ handleBeginInterview
  \/ SpeechTimerFires
  \/ IndexTimerFires
  \/ FinalizeTimerFires
  \/ UtteranceStart
  \/ UtteranceEnd
  \/ UtteranceError
  \/ GetUserMediaSettles
  \/ AbortClick
  \/ RecorderStop
  \/ AnimationFrame

SpecSecondInterview == InitSecondInterview /\ [][NextSecondInterview]_vars

\* C15  No listening without capture: whenever the VAD of the mounted
\* component is armed, capture is active: the analysis node is available,
\* the recorder and the tracks of its stream are live and the recording flag
\* is set (capture is not idle, acquiring, failed or stopped).
C15_NoListeningWithoutCapture ==
  (mounted /\ isActive)
  => /\ analyserRef # 0
     /\ recorderState[analyserRef] = "recording"
     /\ trackLive[analyserRef]
     /\ isRecording

\* C16  Capture session lifetime is bounded by the interview: when no
\* interview is in progress and neither an acquisition nor the completion
\* timer is outstanding, no track is live and no recorder is recording.
C16_CaptureBoundedByInterview ==
  (mounted /\ ~isInterviewStarted /\ pendingGetUserMedia = 0 /\ finalizeTimers = 0)
  => AllReleased

\* The speech queue without its first utterance, whose event is delivered.
Delivered == [ World EXCEPT !.synthQueue = Tail(@) ]

NextUpload ==
  \/ NextAuto
  \/ FinishNowClick
  \/ RecordAnotherClick
  \/ UploadSucceeds
  \/ UploadFails

SpecUpload == Init /\ [][NextUpload]_vars

\* Everything but the upload's flags, its response and the last event.
BesidesUpload ==
  << isPrepared, isInterviewStarted, isCompleted, questions,
     currentQuestionIndex, isSpeaking, isRecording, mediaRecorder,
     mediaStream, audioContext, videoBlob, permissionError,
     permissionRetryCount, callConsentAccepted,
     analyserRef, isActive, animationFrameId,
     speechTimer, indexTimer, recordingCleanup, finalizeTimers, mounted,
     synthQueue, cancelledUtterances, frameCallbacks,
     pendingGetUserMedia, streams, trackLive, recorderState,
     recorderStopEvents, contextState,
     blobs, uploads, interviews, failures, thrown, heard,
     selectedLanguage, chunks, emitted, artifact,
     availableVoices >>

\* C17  Upload outcome is decoupled from completion: the step in which an
\* upload fails sets the upload error, which is no capture error, clears the
\* uploading flag and changes nothing else: completion, index, prompt list
\* and capture state stay as they are and no upload is started.
C17_UploadDecoupled ==
  [][ lastEvent'.kind = "uploadFailed"
      => /\ mounted => /\ uploadError' = "Failed to save video"
                       /\ ~isUploading'
         /\ uploadError' \notin { errorMsg(o) : o \in Outcomes }
         /\ pendingUploads' = pendingUploads - 1
         /\ UNCHANGED BesidesUpload ]_vars

\* The upload of a completed interview has failed.
C17_Witness ==
  /\ mounted /\ lastEvent.kind = "uploadFailed"
  /\ isCompleted /\ uploads = 1 /\ pendingUploads = 0
  /\ uploadError = "Failed to save video" /\ ~isUploading

\* ------------------------------------------------- errors of the recorder
NextSink ==
  \/ NextAuto
  \/ FinishNowClick
  \/ RecorderError

SpecSink == Init /\ [][NextSink]_vars

\* C18  Recording sink failure is fatal to the interview: once the recorder
\* has reported an error during an interview, no track is live, the VAD is
\* disarmed and an error is held in the controller's state.
C18_SinkFailureFatal ==
  (mounted /\ isInterviewStarted /\ lastEvent.kind = "recorderError")
  => /\ \A t \in Streams : ~trackLive[t]
     /\ ~isActive
     /\ permissionError # "" \/ uploadError # ""

\* ------------------------------------------------- the language of speech
NextLanguage ==
  \/ NextAuto
  \/ LanguageChange
  \/ BackClick
  \/ FinishNowClick
  \/ RecordAnotherClick

SpecLanguage == Init /\ [][NextLanguage]_vars

\* Values the selection, a string, is mapped from: the options of the
\* <select> and strings that are none of them.
Selections == LanguageOptions \cup { "", "Hindi", "hi-IN" }

\* C19  Language mapping: getLanguageCode answers hi-IN for the selection
\* "hindi" and en-US for every other value, and every utterance handed to
\* the speech engine carries the tag of the selection of the render that
\* spoke it.
C19_LanguageMapping ==
  /\ \A l \in Selections :
       getLanguageCode([ NoSnap EXCEPT !.selectedLanguage = l ])
         = IF l = "hindi" THEN "hi-IN" ELSE "en-US"
  /\ \A i \in 1..Len(synthQueue) :
       synthQueue[i].lang
         = IF synthQueue[i].snap.selectedLanguage = "hindi" THEN "hi-IN" ELSE "en-US"

\* A prompt of an interview in Hindi is in the speech queue.
C19_Witness ==
  /\ selectedLanguage = "hindi" /\ isInterviewStarted
  /\ synthQueue # << >> /\ Head(synthQueue).lang = "hi-IN"

\* ----------------------------------------------- the chunks of a recording
NextChunks ==
  \/ NextAuto
  \/ FinishNowClick
  \/ DataAvailable

SpecChunks == Init /\ [][NextChunks]_vars

\* The events of a sequence that carried data.
NonEmpty(events) == SelectSeq(events, LAMBDA e : e.size > 0)

\* C20  Chunk order is preserved: the Blob a recorder's onstop built is made
\* of exactly the non-empty data that recorder emitted, in the order
\* emitted, none twice, none missing and none of another recorder.
C20_ChunkOrder ==
  \A rec \in Streams :
    artifact[rec].built
    => /\ artifact[rec].parts = NonEmpty(emitted[rec])
       /\ \A k \in 1..Len(artifact[rec].parts) :
            artifact[rec].parts[k].recorder = rec
       /\ \A j, k \in 1..Len(artifact[rec].parts) :
            j < k => artifact[rec].parts[j].number < artifact[rec].parts[k].number

\* A Blob of two chunks was built by a recorder that emitted three events,
\* the second of them empty.
C20_Witness ==
  \E rec \in Streams :
    /\ artifact[rec].built
    /\ Len(emitted[rec]) = 3 /\ emitted[rec][2].size = 0
    /\ Len(artifact[rec].parts) = 2
    /\ videoBlob # 0

\* C21  Speech end always arms the VAD: an interview in progress whose
\* capture session is active, with no prompt queued, playing or about to be
\* spoken and no acquisition or completion outstanding, is listening; so the
\* VAD is armed also when the capture session was acquired only after the
\* utterance of the current prompt had ended.
C21_SpeechEndArms ==
  ( /\ InProgress /\ ~isSpeaking
    /\ synthQueue = << >> /\ cancelledUtterances = << >>
    /\ ~speechTimer.pending /\ ~indexTimer.pending
    /\ pendingGetUserMedia = 0 /\ finalizeTimers = 0
    /\ analyserRef # 0 /\ recorderState[analyserRef] = "recording" )
  => isActive

\* C22  Speech and arming are strictly sequential per question: a step that
\* arms the VAD during an interview is the terminal callback of the
\* utterance of the prompt the controller is at: no cancelled utterance
\* awaits its event, the utterance leaves the head of the queue, and the
\* loop armed belongs to the render of the current index and question list.
C22_ArmedByCurrentUtterance ==
  [][ (InProgress /\ isInterviewStarted' /\ ~isActive /\ isActive')
      => /\ cancelledUtterances = << >>
         /\ synthQueue # << >> /\ synthQueue' = Tail(synthQueue)
         /\ \A f \in frameCallbacks' :
              /\ f.snap.currentQuestionIndex = currentQuestionIndex'
              /\ f.snap.questions = questions' ]_vars

\* C23  Single detection loop: at most one frame callback is scheduled, it
\* is the one the detector holds the id of, and it is scheduled exactly
\* while the detector is armed; arming an armed detector changes nothing.
C23_SingleDetectionLoop ==
  [](/\ Cardinality(frameCallbacks) <= 1
     /\ (frameCallbacks # {}) <=> isActive
     /\ \A f \in frameCallbacks : f.id = animationFrameId
     /\ isActive => startSilenceDetection(World, Snap(World)) = World)

\* An utterance has ended in error while the detector was already counting
\* silent frames: its arming found the detector armed.
C23_Witness ==
  /\ mounted /\ lastEvent.kind = "onerror" /\ isActive
  /\ \E f \in frameCallbacks : f.consecutiveFrames > 0

\* C24  The VAD window never leaks across armings: a step that arms the VAD
\* schedules its loop with a count of 0, and a scheduled count above 0 is
\* one more than the count of the callback of the same arming that has just
\* run.
C24_WindowNeverLeaks ==
  [][ /\ (~isActive /\ isActive')
         => \A f \in frameCallbacks' : f.consecutiveFrames = 0
      /\ \A g \in frameCallbacks' \ frameCallbacks :
           g.consecutiveFrames > 0
           => /\ isActive /\ isActive'
              /\ \E f \in frameCallbacks :
                   /\ g.consecutiveFrames = f.consecutiveFrames + 1
                   /\ g.snap = f.snap ]_vars

\* The VAD has just been armed for a later question, earlier armings having
\* counted their frames.
C24_Witness ==
  /\ mounted /\ lastEvent.kind = "onerror" /\ lastEvent.index > 0
  /\ isActive /\ currentQuestionIndex = lastEvent.index
  /\ \A f \in frameCallbacks : f.consecutiveFrames = 0

\* C25  Disarm is safe and final: stopSilenceDetection on an idle detector
\* changes nothing; on an armed one it leaves the detector idle with no
\* frame callback scheduled; while the detector is idle no callback is
\* scheduled, and a turn-complete comes only from a detector that was armed.
C25_DisarmSafeAndFinal ==
  /\ [](/\ ~isActive => /\ stopSilenceDetection(World) = World
                       /\ frameCallbacks = {}
        /\ isActive => /\ ~stopSilenceDetection(World).isActive
                       /\ stopSilenceDetection(World).frameCallbacks = {}
                       /\ stopSilenceDetection(World).animationFrameId = 0)
  /\ [][ lastEvent'.kind = "turnComplete" => isActive ]_vars

\* The detector, armed, has disarmed itself on the turn-complete that
\* advanced the index: nothing is scheduled.
C25_Witness ==
  /\ mounted /\ lastEvent.kind = "turnComplete" /\ isRecording
  /\ analyserRef # 0 /\ ~isActive /\ frameCallbacks = {} /\ animationFrameId = 0

\* ------------------------------------------- a frame without its analyser
\* stopRecording disarms the detector before it clears analyserRef, so the
\* component's own handlers never leave a frame callback scheduled without
\* an analyser.  The branch of detectSilence for that case is exercised
\* from the states it is written for: a loop scheduled at some question,
\* with some count, whatever the error shown and the speaking flag, the
\* analyser gone.
InitLost ==
  /\ \E n \in 1..MaxQuestions, i \in 0..(MaxQuestions - 1),
        count \in 0..(requiredFrames - 1),
        error \in { errorMsg(o) : o \in Outcomes } \cup { "" },
        speaking \in BOOLEAN :
       i < n /\ Detecting(n, i, 0, count, error, speaking)
  /\ lastEvent = Event("onend", NoSnap)
  /\ heard = << >>

NextLost == AnimationFrame

SpecLost == InitLost /\ [][NextLost]_vars

\* Everything but the detector's own fields and the last event.
BesidesDetector ==
  << isPrepared, isInterviewStarted, isCompleted, questions,
     currentQuestionIndex, isSpeaking, isRecording, mediaRecorder,
     mediaStream, audioContext, videoBlob, permissionError,
     permissionRetryCount, callConsentAccepted, analyserRef,
     speechTimer, indexTimer, recordingCleanup, finalizeTimers, mounted,
     synthQueue, cancelledUtterances,
     pendingGetUserMedia, streams, trackLive, recorderState,
     recorderStopEvents, contextState,
     blobs, uploads, interviews, failures, thrown, heard,
     isUploading, uploadError, pendingUploads,
     selectedLanguage, chunks, emitted, artifact,
     availableVoices >>

\* C26  Lost analysis source: a detection frame that runs when the analyser
\* is gone leaves the detector idle with no frame scheduled, is no
\* turn-complete, and changes nothing else: index, errors and capture state
\* stay as they were.
C26_LostAnalysisSource ==
  [][ (analyserRef = 0 /\ frameCallbacks # {} /\ frameCallbacks' # frameCallbacks)
      => /\ ~isActive' /\ frameCallbacks' = {} /\ animationFrameId' = 0
         /\ lastEvent'.kind # "turnComplete"
         /\ UNCHANGED BesidesDetector ]_vars

\* The frame has run at a later question, with an error shown and a silent
\* frame already counted short of the turn: the detector is idle and the
\* index where it was.
C26_Witness ==
  /\ analyserRef = 0 /\ ~isActive /\ frameCallbacks = {} /\ animationFrameId = 0
  /\ isInterviewStarted /\ currentQuestionIndex = questions - 1
  /\ currentQuestionIndex > 0 /\ permissionError # ""

\* C27  Manual navigation ordering: during the delay that precedes playback
\* of prompt 0, which only a Previous click starts, no utterance is queued or
\* playing and the VAD is not armed.
C27_NavigationGapQuiet ==
  (InProgress /\ indexTimer.pending /\ indexTimer.snap.currentQuestionIndex = 0)
  => (~isActive /\ ~isSpeaking /\ synthQueue = << >>)


\* A step in which a timer of the index effect ran.
IndexTimerRan ==
  /\ lastEvent'.kind = "speak"
  /\ PendingTimers(indexTimer') # PendingTimers(indexTimer)

\* C28  Cancellable transition delay: at most one playback is pending, and it
\* is of the current index, so an index that changes during the delay cancels
\* the playback of the index it leaves; when the delay elapses the one
\* utterance queued is that of the current index (none past the last prompt).
C28_DelayCancellable ==
  /\ [](/\ Cardinality(PendingTimers(indexTimer)) <= 1
        /\ \A s \in PendingTimers(indexTimer) :
             s.currentQuestionIndex = currentQuestionIndex)
  /\ [][ IndexTimerRan
         => /\ lastEvent'.index = currentQuestionIndex
            /\ currentQuestionIndex' = currentQuestionIndex
            /\ IF lastEvent'.index < lastEvent'.total
               THEN /\ Len(synthQueue') = 1
                    /\ synthQueue'[1].snap.currentQuestionIndex = currentQuestionIndex
               ELSE synthQueue' = synthQueue ]_vars

\* Previous was clicked during the delay before prompt 1: only the playback
\* of prompt 0 is pending.
C28_Witness ==
  /\ lastEvent.kind = "navigatedAgain" /\ lastEvent.index = 1
  /\ currentQuestionIndex = 0
  /\ PendingTimers(indexTimer) # {}
  /\ \A s \in PendingTimers(indexTimer) : s.currentQuestionIndex = 0


\* A step of the Previous button.
PreviousClicked ==
  /\ lastEvent'.kind \in { "previous", "navigatedAgain" }
  /\ lastEvent' # lastEvent

\* The delay that precedes playback of prompt 0, which a Previous click starts.
BeforePromptZero ==
  /\ InProgress
  /\ indexTimer.pending /\ indexTimer.snap.currentQuestionIndex = 0

\* C29  Previous re-speaks the earlier prompt from the start: a click at
\* index i > 0 leaves index i - 1, an empty queue, an idle detector and the
\* playback of prompt i - 1 pending; until that playback no answer turn
\* completes, and the delay elapsing queues prompt 0 unstarted.
C29_PreviousRespeaks ==
  [][ /\ PreviousClicked
         => /\ lastEvent'.index > 0
            /\ currentQuestionIndex' = lastEvent'.index - 1
            /\ synthQueue' = << >> /\ ~isSpeaking' /\ ~isActive'
            /\ PendingTimers(indexTimer') = { Snap(World') }
      /\ BeforePromptZero
         => /\ lastEvent'.kind # "turnComplete"
            /\ IndexTimerRan
               => /\ Len(synthQueue') = 1
                  /\ synthQueue'[1].snap.currentQuestionIndex = 0
                  /\ ~synthQueue'[1].speaking ]_vars


\* C30  At most one utterance: the queue never holds more than one utterance,
\* and a speakCurrentQuestion that passes its guard leaves the queue with the
\* one utterance it made, not started, whatever was queued or playing before.
C30_AtMostOneUtterance ==
  /\ [](Len(synthQueue) <= 1)
  /\ [][ (lastEvent'.kind = "speak" /\ lastEvent'.index < lastEvent'.total)
         => /\ Len(synthQueue') = 1
            /\ ~synthQueue'[1].speaking
            /\ synthQueue'[1].snap.currentQuestionIndex = lastEvent'.index
            /\ Len(cancelledUtterances') <= Len(cancelledUtterances) + Len(synthQueue) ]_vars

\* With one question, where nothing but speakCurrentQuestion cancels: a speak
\* that found an utterance in the queue.
C30_Witness ==
  /\ InProgress /\ questions = 1
  /\ lastEvent.kind = "speak"
  /\ Len(synthQueue) = 1 /\ ~synthQueue[1].speaking
  /\ cancelledUtterances # << >>


\* startRecording has obtained a stream and ended in its catch block.
FailedWithStream ==
  /\ failures' = failures + 1
  /\ streams' = streams + 1

\* C31  Tracks are released on the error paths of startRecording: when it has
\* obtained a stream and then fails, the tracks of that stream are stopped in
\* the step that reports the failure.
C31_TracksReleasedOnError ==
  [][ FailedWithStream => ~trackLive'[streams'] ]_vars


\* C32  Missing audio track fails fast: when the stream obtained has no audio
\* track, no recorder and no audio graph are made for it, it does not become
\* the media stream, the recording flag is false, and the failure is reported
\* as an acquisition failure (error set, retry counter one higher).
C32_MissingAudioFailsFast ==
  [][ (mounted /\ lastEvent'.kind = "noAudioTrack")
      => /\ streams' = streams + 1
         /\ recorderState'[streams'] = "none" /\ mediaRecorder' = mediaRecorder
         /\ contextState'[streams'] = "none"
         /\ analyserRef' = analyserRef /\ audioContext' = audioContext
         /\ mediaStream' = mediaStream
         /\ ~isRecording'
         /\ permissionError' = errorMsg("noAudioTrack")
         /\ permissionRetryCount' = permissionRetryCount + 1
         /\ failures' = failures + 1 ]_vars

\* The second acquisition of an interview ended without an audio track.
C32_Witness ==
  /\ InProgress /\ lastEvent.kind = "noAudioTrack"
  /\ permissionRetryCount = 2 /\ permissionError # ""
  /\ ~isRecording /\ mediaRecorder = 0 /\ analyserRef = 0


\* C33  Abort from a permission failure returns to NotStarted: the step of
\* "Back to Setup" leaves the interview not started, no permission error and
\* a retry counter of 0, with the prompt list, the index and the consent as
\* they were, so that the screen offers to join the call again.
C33_AbortReturnsToNotStarted ==
  [][ lastEvent'.kind = "abort"
      => /\ permissionError # ""
         /\ ~isInterviewStarted' /\ permissionError' = "" /\ permissionRetryCount' = 0
         /\ questions' = questions /\ currentQuestionIndex' = currentQuestionIndex
         /\ callConsentAccepted' = callConsentAccepted
         /\ Screen(World') = "prepared" /\ callConsentAccepted' ]_vars

\* Aborted after two failed acquisitions.
C33_Witness ==
  /\ mounted /\ lastEvent.kind = "abort"
  /\ failures = 2 /\ permissionRetryCount = 0 /\ permissionError = ""
  /\ ~isInterviewStarted /\ questions > 0 /\ Screen(World) = "prepared"


\* The component used for one interview more than MaxInterviews.
NextAnotherInterview ==
  \/ handleStartTestimonial_upTo(MaxInterviews + 1)
  \/ ConsentChange
  \/ handleBeginInterview
  \/ BackClick
  \/ RecordAnotherClick
  \/ SpeechTimerFires
  \/ IndexTimerFires
  \/ FinalizeTimerFires
  \/ UtteranceStart
  \/ UtteranceEnd
  \/ UtteranceError
  \/ CancelledUtteranceError
  \/ GetUserMediaSettles
  \/ AbortClick
  \/ RecorderStop
  \/ AnimationFrame
  \/ PreviousClick
  \/ FinishNowClick

SpecAnotherInterview == Init /\ [][NextAnotherInterview]_vars

\* C34  Index stays in range: while an interview is in progress the current
\* index is one of its prompts.
C34_IndexInRange ==
  InProgress => (0 <= currentQuestionIndex /\ currentQuestionIndex < questions)


\* ----------------------------------------------------- the choice of a voice
\* The voices load on the setup screen; an interview is then prepared and
\* joined in either language and its first prompt handed to the engine.
NextVoice ==
  \/ VoicesChanged
  \/ LanguageChange
  \/ handleStartTestimonial
  \/ ConsentChange
  \/ handleBeginInterview
  \/ SpeechTimerFires

SpecVoice == Init /\ [][NextVoice]_vars

\* C35  Voice selection (a language starting with the tag whatever the case
\* of its letters): the voice of every utterance is the first voice of the
\* render's list whose language starts with the utterance's tag and whose
\* name has one of the quality words, if there is one; else the first voice
\* whose language starts with the tag; else none.  A voice of another
\* language is never chosen.
C35_VoiceSelection ==
  \A i \in 1..Len(synthQueue) :
    LET voices == synthQueue[i].snap.availableVoices
        tag == Characters(synthQueue[i].lang)
        ofTag == { k \in 1..Len(voices) :
                     /\ Len(voices[k].lang) >= Len(tag)
                     /\ \A j \in 1..Len(tag) :
                          toLowerCase_char(voices[k].lang[j]) = toLowerCase_char(tag[j]) }
        ofQuality == { k \in ofTag : QualityPattern_test(voices[k].name) }
        chosen == synthQueue[i].voice
    IN /\ ofQuality # {}
          => \E k \in ofQuality : chosen = voices[k] /\ \A j \in ofQuality : k <= j
       /\ (ofQuality = {} /\ ofTag # {})
          => \E k \in ofTag : chosen = voices[k] /\ \A j \in ofTag : k <= j
       /\ ofTag = {} => chosen = NoVoice
       /\ chosen # NoVoice => \E k \in ofTag : chosen = voices[k]

\* A Hindi prompt is queued with the second voice, a quality voice: the first
\* voice is of the language too, but its name has no quality word.
C35_Witness ==
  /\ Len(synthQueue) = 1
  /\ synthQueue[1].lang = "hi-IN"
  /\ Len(synthQueue[1].snap.availableVoices) = MaxVoices
  /\ synthQueue[1].snap.availableVoices[1].lang = Characters("hi-IN")
  /\ ~QualityPattern_test(synthQueue[1].snap.availableVoices[1].name)
  /\ synthQueue[1].voice = synthQueue[1].snap.availableVoices[MaxVoices]
  /\ synthQueue[1].voice # synthQueue[1].snap.availableVoices[1]


\* C36  No speech outside an interview: a timer of the speech effects hands
\* an utterance to the engine only while the interview is in progress.
C36_NoSpeechOutsideInterview ==
  [][ (lastEvent'.kind = "speak" /\ synthQueue' # << >> /\ synthQueue' # synthQueue)
      => InProgress ]_vars


\* The streams obtained whose tracks have not been stopped.
LiveStreams == { s \in Streams : trackLive[s] }

\* C37  At most one capture acquisition: at most one call of getUserMedia is
\* pending, none while a stream obtained is not released, and at most one
\* stream is obtained and not released.
C37_AtMostOneAcquisition ==
  Cardinality(LiveStreams) + pendingGetUserMedia <= 1


\* C38  Consent gate: the interview is started only with the consent
\* accepted, the consent stays accepted while the interview is started, and
\* a step that returns to the setup screen (Back, Record Another) leaves the
\* consent cleared.
C38_ConsentGate ==
  /\ [](isInterviewStarted => callConsentAccepted)
  /\ [][ /\ (~isInterviewStarted /\ isInterviewStarted') => callConsentAccepted
         /\ (mounted' /\ Screen(World) # "setup" /\ Screen(World') = "setup")
            => ~callConsentAccepted' ]_vars

\* An interview was joined, with the consent, and given up after a failed
\* acquisition; Back has cleared the consent.
C38_Witness ==
  /\ mounted /\ Screen(World) = "setup"
  /\ interviews = 1 /\ failures = 1
  /\ ~callConsentAccepted

====
